---- MODULE Spec2Model ----
(***************************************************************************)
(* State-machine model of src/server.ts: an Express server holding two     *)
(* in-memory arrays, users and products, with list / get / create /        *)
(* update / delete routes, a catch-all 404 route and a global error        *)
(* handler.  Every route handler is a pure operator from the current       *)
(* arrays and the request to the new array and the response sent; one      *)
(* action per route applies it.  Node runs one handler at a time and no    *)
(* handler awaits, so a request is one atomic step.                        *)
(***************************************************************************)
EXTENDS Integers, Sequences, FiniteSets, TLC

VARIABLES
    users,      \* let users: User[]            (server.ts:30)
    products,   \* let products: Product[]      (server.ts:35)
    req,        \* the last request handled: its route, params, body or query
    res,        \* the response sent to it: [status, body]
    NODE_ENV,   \* process.env.NODE_ENV, read by the error handler (server.ts:300)
    served      \* number of requests handled so far (bounds the exploration)

vars == <<users, products, req, res, NODE_ENV, served>>

-----------------------------------------------------------------------------
(* Bounds of the exploration.                                              *)

\* Requests handled in one run.
MaxReq == 2
\* POST /api/users is explored while users.length < MaxUsers.
MaxUsers == 3
\* POST /api/products is explored while products.length < MaxProducts.
MaxProducts == 4
\* new Date() yields a time in 1..MaxTime; the seed rows are stamped at 0.
MaxTime == 1

-----------------------------------------------------------------------------
(* JavaScript values.  req.body and req.query are untyped at run time, so  *)
(* a field is undefined, a string or a number; Number() can add NaN.       *)

Undef == [t |-> "undefined"]
NaN == [t |-> "NaN"]
Str(s) == [t |-> "string", v |-> s]
Num(n) == [t |-> "number", v |-> n]

\* ToBoolean: !x is ~Truthy(x).
Truthy(x) ==
    CASE x.t = "undefined" -> FALSE
      [] x.t = "NaN" -> FALSE
      [] x.t = "string" -> x.v # ""
      [] x.t = "number" -> x.v # 0

\* a || b
Or(a, b) == IF Truthy(a) THEN a ELSE b

\* Number(x): numbers are kept, "" is 0, a decimal literal is its value, any
\* other string and undefined are NaN.
Number(x) ==
    CASE x.t = "number" -> x
      [] x.t = "NaN" -> x
      [] x.t = "undefined" -> NaN
      [] x.t = "string" ->
            CASE x.v = "" -> Num(0)
              [] x.v = "0" -> Num(0)
              [] x.v = "7" -> Num(7)
              [] x.v = "150" -> Num(150)
              [] x.v = "400" -> Num(400)
              [] OTHER -> NaN

Digit == <<"0", "1", "2", "3", "4", "5", "6", "7", "8", "9">>

\* The decimal digits of a non-negative integer.
RECURSIVE Decimal(_)
Decimal(n) == IF n < 10 THEN Digit[n + 1] ELSE Decimal(n \div 10) \o Digit[(n % 10) + 1]

\* String(x): a string is kept, a number is written in decimal.
String(x) ==
    CASE x.t = "string" -> x.v
      [] x.t = "number" -> Decimal(x.v)
      [] x.t = "NaN" -> "NaN"
      [] x.t = "undefined" -> "undefined"

\* s.toLowerCase() on the strings that occur as categories or category filters.
toLowerCase(s) ==
    CASE s = "Electronics" -> "electronics"
      [] s = "ELECTRONICS" -> "electronics"
      [] s = "Peripherals" -> "peripherals"
      [] s = "PERIPHERALS" -> "peripherals"
      [] s = "Toys" -> "toys"
      [] OTHER -> s

\* a >= b and a <= b on numbers: every comparison with NaN is false.
Geq(a, b) == a.t = "number" /\ b.t = "number" /\ a.v >= b.v
Leq(a, b) == a.t = "number" /\ b.t = "number" /\ a.v <= b.v

-----------------------------------------------------------------------------
(* Arrays.  Indices are 0-based as in the source; element i of the array   *)
(* is a[i + 1] of the sequence.                                            *)

\* a.find(e => e.id === id): the first match, or undefined.
find(a, id) ==
    IF \E i \in 1..Len(a) : a[i].id = id
    THEN a[CHOOSE i \in 1..Len(a) : a[i].id = id /\ \A j \in 1..(i - 1) : a[j].id # id]
    ELSE Undef

\* a.findIndex(e => e.id === id): the first match, or -1.
findIndex(a, id) ==
    IF \E i \in 1..Len(a) : a[i].id = id
    THEN (CHOOSE i \in 1..Len(a) : a[i].id = id /\ \A j \in 1..(i - 1) : a[j].id # id) - 1
    ELSE -1

\* Mutant of push: a.unshift(e), the new element goes first.
unshift(a, e) == <<e>> \o a

\* a.push(e)
push(a, e) == Append(a, e)

\* a.splice(index, 1)
splice(a, index) ==
    [i \in 1..(Len(a) - 1) |-> IF i <= index THEN a[i] ELSE a[i + 1]]

\* a[index] = e
assign(a, index, e) == [a EXCEPT ![index + 1] = e]

\* a.filter(e => e \in keep): the kept elements, in the order of a.
RECURSIVE filter(_, _)
filter(a, keep) ==
    IF a = <<>> THEN <<>>
    ELSE IF Head(a) \in keep THEN <<Head(a)>> \o filter(Tail(a), keep)
    ELSE filter(Tail(a), keep)

\* The elements of a.
Elements(a) == {a[i] : i \in 1..Len(a)}

-----------------------------------------------------------------------------
(* Responses and the error path.                                           *)

\* res.status(status).json(body)
json(status, body) == [status |-> status, body |-> body]

\* new AppError(message, statusCode)
AppError(message, statusCode) == [message |-> Str(message), statusCode |-> Num(statusCode)]

\* An Error thrown by the runtime inside a handler: it has no statusCode.
TypeError(message) == [message |-> Str(message), statusCode |-> Undef]

\* Mutant of errorHandler: err.statusCode is ignored, every error is a 500.
errorHandler_always500(err) ==
    LET statusCode == 500
        message == Or(err.message, Str("Internal server error")).v
    IN  IF NODE_ENV = "development"
        THEN json(statusCode, [success |-> FALSE, error |-> message,
                               status |-> statusCode, stack |-> "stack"])
        ELSE json(statusCode, [success |-> FALSE, error |-> message,
                               status |-> statusCode])

\* The global error handler.
errorHandler(err) ==
    LET statusCode == Or(err.statusCode, Num(500)).v
        message == Or(err.message, Str("Internal server error")).v
    IN  IF NODE_ENV = "development"
        THEN json(statusCode, [success |-> FALSE, error |-> message,
                               status |-> statusCode, stack |-> "stack"])
        ELSE json(statusCode, [success |-> FALSE, error |-> message,
                               status |-> statusCode])

\* The catch-all route.
routeNotFound(originalUrl) ==
    json(404, [success |-> FALSE, error |-> "Route not found", path |-> originalUrl])

-----------------------------------------------------------------------------
(* User routes.  A handler takes the users array db and the request and    *)
(* yields [db |-> the array afterwards, res |-> the response sent].        *)

\* GET /api/users
get_api_users(db) ==
    [db |-> db,
     res |-> json(200, [success |-> TRUE, count |-> Len(db), data |-> db])]

\* GET /api/users/:id
get_api_users_id(db, id) ==
    LET user == find(db, id)
    IN  IF user = Undef
        THEN [db |-> db, res |-> errorHandler(AppError("User not found", 404))]
        ELSE [db |-> db, res |-> json(200, [success |-> TRUE, data |-> user])]

\* POST /api/users
post_api_users(db, body, now) ==
    IF ~Truthy(body.name) \/ ~Truthy(body.email)
    THEN [db |-> db,
          res |-> errorHandler(AppError("Name and email are required", 400))]
    ELSE LET newUser == [id |-> String(Num(Len(db) + 1)), name |-> body.name,
                         email |-> body.email, createdAt |-> now]
         IN  [db |-> push(db, newUser),
              res |-> json(201, [success |-> TRUE,
                                 message |-> "User created successfully",
                                 data |-> newUser])]

\* Mutant of put_api_users_id: the fields are taken from the body without the
\* fallback to the stored value.
put_api_users_id_nofallback(db, id, body) ==
    LET userIndex == findIndex(db, id)
    IN  IF userIndex = -1
        THEN [db |-> db, res |-> errorHandler(AppError("User not found", 404))]
        ELSE LET old == db[userIndex + 1]
                 updated == [old EXCEPT !.name = body.name, !.email = body.email]
             IN  [db |-> assign(db, userIndex, updated),
                  res |-> json(200, [success |-> TRUE,
                                     message |-> "User updated successfully",
                                     data |-> updated])]

\* PUT /api/users/:id
put_api_users_id(db, id, body) ==
    LET userIndex == findIndex(db, id)
    IN  IF userIndex = -1
        THEN [db |-> db, res |-> errorHandler(AppError("User not found", 404))]
        ELSE LET old == db[userIndex + 1]
                 updated == [old EXCEPT !.name = Or(body.name, old.name),
                                        !.email = Or(body.email, old.email)]
             IN  [db |-> assign(db, userIndex, updated),
                  res |-> json(200, [success |-> TRUE,
                                     message |-> "User updated successfully",
                                     data |-> updated])]

\* DELETE /api/users/:id
delete_api_users_id(db, id) ==
    LET userIndex == findIndex(db, id)
    IN  IF userIndex = -1
        THEN [db |-> db, res |-> errorHandler(AppError("User not found", 404))]
        ELSE [db |-> splice(db, userIndex),
              res |-> json(200, [success |-> TRUE,
                                 message |-> "User deleted successfully"])]

-----------------------------------------------------------------------------
(* Product routes.  A handler yields [db |-> the products array afterwards, *)
(* res |-> the response].                                                   *)

\* GET /api/products?category=&minPrice=&maxPrice=
\* p.category.toLowerCase() throws a TypeError when a stored category is not
\* a string; Express hands the exception to the global error handler.
get_api_products(db, query) ==
    LET all == db
        byCategory ==
            IF Truthy(query.category)
            THEN filter(all, {p \in Elements(all) :
                     toLowerCase(p.category.v) = toLowerCase(String(query.category))})
            ELSE all
        byMin ==
            IF Truthy(query.minPrice)
            THEN filter(byCategory, {p \in Elements(byCategory) :
                     Geq(p.price, Number(query.minPrice))})
            ELSE byCategory
        filteredProducts ==
            IF Truthy(query.maxPrice)
            THEN filter(byMin, {p \in Elements(byMin) :
                     Leq(p.price, Number(query.maxPrice))})
            ELSE byMin
    IN  IF Truthy(query.category) /\ \E p \in Elements(all) : p.category.t # "string"
        THEN [db |-> db,
              res |-> errorHandler(TypeError("p.category.toLowerCase is not a function"))]
        ELSE [db |-> db,
              res |-> json(200, [success |-> TRUE, count |-> Len(filteredProducts),
                                 data |-> filteredProducts])]

\* GET /api/products/:id
get_api_products_id(db, id) ==
    LET product == find(db, id)
    IN  IF product = Undef
        THEN [db |-> db, res |-> errorHandler(AppError("Product not found", 404))]
        ELSE [db |-> db, res |-> json(200, [success |-> TRUE, data |-> product])]

\* POST /api/products
post_api_products(db, body) ==
    IF ~Truthy(body.name) \/ ~Truthy(body.price) \/ ~Truthy(body.category)
       \/ body.stock = Undef
    THEN [db |-> db,
          res |-> errorHandler(AppError("All fields are required", 400))]
    ELSE LET newProduct == [id |-> String(Num(Len(db) + 1)), name |-> body.name,
                            price |-> Number(body.price), category |-> body.category,
                            stock |-> Number(body.stock)]
         IN  [db |-> push(db, newProduct),
              res |-> json(201, [success |-> TRUE,
                                 message |-> "Product created successfully",
                                 data |-> newProduct])]

\* Mutant of put_api_products_id: price and stock are tested for truthiness
\* (price ? Number(price) : old) like the string fields.
put_api_products_id_truthy(db, id, body) ==
    LET productIndex == findIndex(db, id)
    IN  IF productIndex = -1
        THEN [db |-> db, res |-> errorHandler(AppError("Product not found", 404))]
        ELSE LET old == db[productIndex + 1]
                 updated ==
                     [old EXCEPT
                        !.name = Or(body.name, old.name),
                        !.price = IF Truthy(body.price) THEN Number(body.price)
                                  ELSE old.price,
                        !.category = Or(body.category, old.category),
                        !.stock = IF Truthy(body.stock) THEN Number(body.stock)
                                  ELSE old.stock]
             IN  [db |-> assign(db, productIndex, updated),
                  res |-> json(200, [success |-> TRUE,
                                     message |-> "Product updated successfully",
                                     data |-> updated])]

\* PUT /api/products/:id
put_api_products_id(db, id, body) ==
    LET productIndex == findIndex(db, id)
    IN  IF productIndex = -1
        THEN [db |-> db, res |-> errorHandler(AppError("Product not found", 404))]
        ELSE LET old == db[productIndex + 1]
                 updated ==
                     [old EXCEPT
                        !.name = Or(body.name, old.name),
                        !.price = IF body.price # Undef THEN Number(body.price)
                                  ELSE old.price,
                        !.category = Or(body.category, old.category),
                        !.stock = IF body.stock # Undef THEN Number(body.stock)
                                  ELSE old.stock]
             IN  [db |-> assign(db, productIndex, updated),
                  res |-> json(200, [success |-> TRUE,
                                     message |-> "Product updated successfully",
                                     data |-> updated])]

\* Mutant of delete_api_products_id: the splice runs before the -1 test, and
\* splice(-1, 1) removes the last element.
delete_api_products_id_splicefirst(db, id) ==
    LET productIndex == findIndex(db, id)
    IN  IF productIndex = -1
        THEN [db |-> SubSeq(db, 1, Len(db) - 1),
              res |-> errorHandler(AppError("Product not found", 404))]
        ELSE [db |-> splice(db, productIndex),
              res |-> json(200, [success |-> TRUE,
                                 message |-> "Product deleted successfully"])]

\* DELETE /api/products/:id
delete_api_products_id(db, id) ==
    LET productIndex == findIndex(db, id)
    IN  IF productIndex = -1
        THEN [db |-> db, res |-> errorHandler(AppError("Product not found", 404))]
        ELSE [db |-> splice(db, productIndex),
              res |-> json(200, [success |-> TRUE,
                                 message |-> "Product deleted successfully"])]

-----------------------------------------------------------------------------
(* General routes.                                                         *)

\* GET /
get_root ==
    json(200, [message |-> "RESTful API with Node.js + TypeScript",
               version |-> "1.0.0",
               endpoints |-> [users |-> "/api/users", products |-> "/api/products"]])

\* GET /health
get_health(now) == json(200, [status |-> "OK", uptime |-> now, timestamp |-> now])

-----------------------------------------------------------------------------
(* Requests the clients send.                                              *)

\* req.params.id: the ids the arrays can hold, and one more that never occurs.
UserIds == {String(Num(i)) : i \in 1..(MaxUsers + 1)}
ProductIds == {String(Num(i)) : i \in 1..(MaxProducts + 1)}

\* req.body of POST and PUT /api/users: each field missing, empty or given.
UserBodies ==
    [name : {Undef, Str(""), Str("Ann")},
     email : {Undef, Str(""), Str("ann@example.com")}]

\* A complete product payload (stock zero) and the empty one.
CompleteProduct ==
    [name |-> Str("Desk"), price |-> Num(200), category |-> Str("Toys"),
     stock |-> Num(0)]
EmptyProduct == [name |-> Undef, price |-> Undef, category |-> Undef, stock |-> Undef]

\* The fields on which two payloads differ.
Differ(b, c) == {f \in {"name", "price", "category", "stock"} : b[f] # c[f]}

\* req.body of POST and PUT /api/products: the complete payload and the empty
\* one, each with at most one field replaced by a missing, falsy, wrongly
\* typed or given value.
ProductBodies ==
    {b \in [name : {Undef, Str(""), Str("Desk")},
            price : {Undef, Num(0), Num(200)},
            category : {Undef, Str(""), Str("Toys"), Num(7)},
            stock : {Undef, Num(0), Str("")}] :
        \/ Cardinality(Differ(b, CompleteProduct)) <= 1
        \/ Cardinality(Differ(b, EmptyProduct)) <= 1}

\* req.query of GET /api/products: a query parameter is missing or a string.
Queries ==
    [category : {Undef, Str(""), Str("PERIPHERALS")},
     minPrice : {Undef, Str(""), Str("150")},
     maxPrice : {Undef, Str("400")}]

\* Request paths no route matches.
OtherUrls == {"/api/orders", "/users"}

\* The values of new Date() after start-up.
Times == 1..MaxTime

-----------------------------------------------------------------------------
(* The state after start-up.                                               *)

SeedUsers ==
    << [id |-> "1", name |-> Str("John Doe"), email |-> Str("john@example.com"),
        createdAt |-> 0],
       [id |-> "2", name |-> Str("Jane Smith"), email |-> Str("jane@example.com"),
        createdAt |-> 0] >>

SeedProducts ==
    << [id |-> "1", name |-> Str("Laptop"), price |-> Num(3500),
        category |-> Str("Electronics"), stock |-> Num(10)],
       [id |-> "2", name |-> Str("Gaming Mouse"), price |-> Num(150),
        category |-> Str("Peripherals"), stock |-> Num(50)],
       [id |-> "3", name |-> Str("Mechanical Keyboard"), price |-> Num(400),
        category |-> Str("Peripherals"), stock |-> Num(30)] >>

\* Nothing has been requested or sent yet.
NoRequest == [route |-> "none"]
NoResponse == [status |-> 0, body |-> [success |-> TRUE]]

Init ==
    /\ users = SeedUsers
    /\ products = SeedProducts
    /\ req = NoRequest
    /\ res = NoResponse
    /\ NODE_ENV \in {"development", "production"}
    /\ served = 0

-----------------------------------------------------------------------------
(* One action per route: the handler runs to completion.                   *)

\* Request r on a user route, answered by handler result h.
UserRoute(r, h) ==
    /\ served < MaxReq
    /\ req' = r
    /\ users' = h.db
    /\ res' = h.res
    /\ served' = served + 1
    /\ UNCHANGED <<products, NODE_ENV>>

\* Request r on a product route, answered by handler result h.
ProductRoute(r, h) ==
    /\ served < MaxReq
    /\ req' = r
    /\ products' = h.db
    /\ res' = h.res
    /\ served' = served + 1
    /\ UNCHANGED <<users, NODE_ENV>>

\* Request r on a route that touches neither array, answered with response s.
GeneralRoute(r, s) ==
    /\ served < MaxReq
    /\ req' = r
    /\ res' = s
    /\ served' = served + 1
    /\ UNCHANGED <<users, products, NODE_ENV>>

ListUsers == UserRoute([route |-> "GET /api/users"], get_api_users(users))

GetUser ==
    \E id \in UserIds :
        UserRoute([route |-> "GET /api/users/:id", id |-> id],
                  get_api_users_id(users, id))

CreateUser ==
    /\ Len(users) < MaxUsers
    /\ \E body \in UserBodies, now \in Times :
          UserRoute([route |-> "POST /api/users", body |-> body],
                    post_api_users(users, body, now))

UpdateUser ==
    \E id \in UserIds, body \in UserBodies :
        UserRoute([route |-> "PUT /api/users/:id", id |-> id, body |-> body],
                  put_api_users_id(users, id, body))

DeleteUser ==
    \E id \in UserIds :
        UserRoute([route |-> "DELETE /api/users/:id", id |-> id],
                  delete_api_users_id(users, id))

ListProducts ==
    \E query \in Queries :
        ProductRoute([route |-> "GET /api/products", query |-> query],
                     get_api_products(products, query))

GetProduct ==
    \E id \in ProductIds :
        ProductRoute([route |-> "GET /api/products/:id", id |-> id],
                     get_api_products_id(products, id))

CreateProduct ==
    /\ Len(products) < MaxProducts
    /\ \E body \in ProductBodies :
          ProductRoute([route |-> "POST /api/products", body |-> body],
                       post_api_products(products, body))

UpdateProduct ==
    \E id \in ProductIds, body \in ProductBodies :
        ProductRoute([route |-> "PUT /api/products/:id", id |-> id, body |-> body],
                     put_api_products_id(products, id, body))

DeleteProduct ==
    \E id \in ProductIds :
        ProductRoute([route |-> "DELETE /api/products/:id", id |-> id],
                     delete_api_products_id(products, id))

Root == GeneralRoute([route |-> "GET /"], get_root)

Health == \E now \in Times : GeneralRoute([route |-> "GET /health"], get_health(now))

NotFound ==
    \E url \in OtherUrls :
        GeneralRoute([route |-> "*", originalUrl |-> url], routeNotFound(url))

Next ==
    \/ ListUsers
    \/ GetUser
    \/ CreateUser
    \/ UpdateUser
    \/ DeleteUser
    \/ ListProducts
    \/ GetProduct
    \/ CreateProduct
    \/ UpdateProduct
    \/ DeleteProduct
    \/ Root
    \/ Health
    \/ NotFound

Spec == Init /\ [][Next]_vars

-----------------------------------------------------------------------------
(* Vocabulary of the properties.                                           *)

\* The last request was on route r and was answered with HTTP status st.
Answered(r, st) == req.route = r /\ res.status = st

\* No two entities of collection a share an id.
UniqueIds(a) == \A i, j \in 1..Len(a) : i # j => a[i].id # a[j].id

\* Collection a without its k-th entity, the others in their order.
Without(a, k) == SubSeq(a, 1, k - 1) \o SubSeq(a, k + 1, Len(a))

\* A required field of a create payload is missing or empty.
MissingOrEmpty(x) == x = Undef \/ x = Str("")

\* Position (from 1) of the entity an update or delete of id matches in a.
Matched(a, id) == findIndex(a, id) + 1

UserFields == {"name", "email"}
ProductStrings == {"name", "category"}
ProductNumbers == {"price", "stock"}
ByIdRoutes ==
    {"GET /api/users/:id", "PUT /api/users/:id", "DELETE /api/users/:id",
     "GET /api/products/:id", "PUT /api/products/:id", "DELETE /api/products/:id"}
CreateRoutes == {"POST /api/users", "POST /api/products"}

\* Update of id with payload body took a to b: only position Matched(a, id)
\* may differ, and there only updatable fields the payload holds.
Framed(a, b, id, body, updatable, fixed) ==
    LET k == Matched(a, id)
    IN  /\ Len(b) = Len(a)
        /\ \A i \in 1..Len(a) : i # k => b[i] = a[i]
        /\ \A f \in fixed : b[k][f] = a[k][f]
        /\ \A f \in updatable : body[f] = Undef => b[k][f] = a[k][f]

\* What the product list is to return for query q: the products that pass
\* every filter that is present, in the order of a.
Passes(p, q) ==
    /\ q.category = Undef
          \/ toLowerCase(String(p.category)) = toLowerCase(String(q.category))
    /\ q.minPrice = Undef \/ Geq(p.price, Number(q.minPrice))
    /\ q.maxPrice = Undef \/ Leq(p.price, Number(q.maxPrice))
Listed(a, q) == filter(a, {p \in Elements(a) : Passes(p, q)})

-----------------------------------------------------------------------------
(* C1  Identifier uniqueness: in every reachable state no two users share  *)
(* an id and no two products share an id.                                  *)
(* The code assigns String(length + 1), so a create after a delete reuses  *)
(* an id that is still present.                                            *)
C1_IdsUnique == UniqueIds(users) /\ UniqueIds(products)

(* C2  Read-after-create: when a create has just succeeded and returned an *)
(* entity with id i, GetByID(i) on the same collection answers 200 with    *)
(* exactly that entity.                                                    *)
C2_ReadAfterCreate ==
    /\ Answered("POST /api/users", 201) =>
          get_api_users_id(users, res.body.data.id).res
            = json(200, [success |-> TRUE, data |-> res.body.data])
    /\ Answered("POST /api/products", 201) =>
          get_api_products_id(products, res.body.data.id).res
            = json(200, [success |-> TRUE, data |-> res.body.data])

(* C3  Read-after-delete: in every reachable state, whenever Delete(i)     *)
(* succeeds on a collection, GetByID(i) on the collection it leaves        *)
(* answers 404.                                                            *)
C3_ReadAfterDelete ==
    /\ \A id \in UserIds :
          LET d == delete_api_users_id(users, id)
          IN  d.res.status = 200 => get_api_users_id(d.db, id).res.status = 404
    /\ \A id \in ProductIds :
          LET d == delete_api_products_id(products, id)
          IN  d.res.status = 200 => get_api_products_id(d.db, id).res.status = 404

\* C4 on one step.
C4_Step ==
    /\ (req'.route = "PUT /api/users/:id" /\ res'.status = 200) =>
          /\ Framed(users, users', req'.id, req'.body, UserFields, {"id", "createdAt"})
          /\ products' = products
    /\ (req'.route = "PUT /api/products/:id" /\ res'.status = 200) =>
          /\ Framed(products, products', req'.id, req'.body,
                    ProductStrings \cup ProductNumbers, {"id"})
          /\ users' = users

(* C4  Partial update frame: a successful update changes only updatable    *)
(* fields present in the request, on the one matched entity; omitted       *)
(* fields, the id and a user's createdAt keep their values, the entity     *)
(* keeps its position, every other entity and the other collection are     *)
(* unchanged.                                                              *)
C4_PartialUpdateFrame == [][C4_Step]_vars

\* A product update that set the price of a seed row to zero, name omitted.
C4_Witness ==
    /\ Answered("PUT /api/products/:id", 200)
    /\ served = 1
    /\ req.id = "2" /\ req.body.price = Num(0) /\ req.body.name = Undef
    /\ products[2].price = Num(0)
    /\ products[2].name = SeedProducts[2].name

(* C5 as claimed: after a successful update every field whose input is not *)
(* undefined holds the supplied value in the stored entity (price and      *)
(* stock as numbers), the empty string and zero included.                  *)
C5_PresentFieldsOverwrite ==
    /\ Answered("PUT /api/users/:id", 200) =>
          \A f \in UserFields :
              req.body[f] # Undef => find(users, req.id)[f] = req.body[f]
    /\ Answered("PUT /api/products/:id", 200) =>
          /\ \A f \in ProductStrings :
                req.body[f] # Undef => find(products, req.id)[f] = req.body[f]
          /\ \A f \in ProductNumbers :
                req.body[f] # Undef => find(products, req.id)[f] = Number(req.body[f])

\* C5 amended, on one step.
C5_Step ==
    /\ (req'.route = "PUT /api/users/:id" /\ res'.status = 200) =>
          LET k == Matched(users, req'.id)
          IN  \A f \in UserFields :
                users'[k][f] = IF Truthy(req'.body[f]) THEN req'.body[f]
                               ELSE users[k][f]
    /\ (req'.route = "PUT /api/products/:id" /\ res'.status = 200) =>
          LET k == Matched(products, req'.id)
          IN  /\ \A f \in ProductStrings :
                    products'[k][f] = IF Truthy(req'.body[f]) THEN req'.body[f]
                                      ELSE products[k][f]
              /\ \A f \in ProductNumbers :
                    products'[k][f] = IF req'.body[f] # Undef
                                      THEN Number(req'.body[f])
                                      ELSE products[k][f]

(* C5 amended: price and stock are replaced by Number(input) whenever the  *)
(* input is not undefined, zero included; name, email and category are     *)
(* replaced by the input only when it is truthy, and an empty string       *)
(* leaves the stored value as it was.                                      *)
C5_TruthyOrDefinedOverwrite == [][C5_Step]_vars

\* An update with stock zero and one with an empty name have both been served.
C5_Witness ==
    /\ Answered("PUT /api/products/:id", 200)
    /\ req.body.name = Str("")
    /\ \E i \in 1..Len(products) :
          products[i].stock = Num(0) /\ products[i].id # req.id
    /\ find(products, req.id).name # Str("")

(* C6  Create validation is exact: a create answers 400 if and only if a   *)
(* required field is missing or empty, and otherwise answers 201 and       *)
(* appends the entity - also with stock zero or price zero.                *)
C6_CreateValidationExact ==
    /\ req.route = "POST /api/users" =>
          /\ res.status = 400 <=> \E f \in UserFields : MissingOrEmpty(req.body[f])
          /\ res.status # 400 =>
                res.status = 201 /\ users[Len(users)] = res.body.data
    /\ req.route = "POST /api/products" =>
          /\ res.status = 400 <=>
                \E f \in ProductStrings \cup ProductNumbers : MissingOrEmpty(req.body[f])
          /\ res.status # 400 =>
                res.status = 201 /\ products[Len(products)] = res.body.data

\* C7 on one step.
C7_Step ==
    ((req'.route \in CreateRoutes /\ res'.status = 400)
       \/ (req'.route \in ByIdRoutes /\ res'.status = 404))
    => (users' = users /\ products' = products)

(* C7  State unchanged on error: a create answered 400 and a get, update   *)
(* or delete by id answered 404 leave both collections exactly as they     *)
(* were.                                                                   *)
C7_ErrorLeavesState == [][C7_Step]_vars

\* A delete of an absent id answered 404 after a successful create.
C7_Witness ==
    /\ Answered("DELETE /api/products/:id", 404)
    /\ Len(products) = Len(SeedProducts) + 1
    /\ res.body.error = "Product not found"

\* C8 on one step.
C8_Step ==
    req'.route = "GET /api/products" =>
        /\ res'.status = 200
        /\ res'.body.data = Listed(products, req'.query)
        /\ res'.body.count = Len(res'.body.data)
        /\ products' = products

(* C8  Product list filtering: the list answers 200 with exactly the       *)
(* products that pass every filter present in the query (category          *)
(* compared in lower case, minPrice and maxPrice inclusive), in the        *)
(* collection's order, count being their number, for every subset of the   *)
(* filters; the collection is not modified.                                *)
C8_ListFilters == [][C8_Step]_vars

C9_Unfiltered(r) ==
    r.route = "GET /api/users"
      \/ (r.route = "GET /api/products"
            /\ r.query = [category |-> Undef, minPrice |-> Undef, maxPrice |-> Undef])
\* C9 on one step.
C9_Step ==
    /\ (req'.route = "GET /api/users") =>
          res'.body.data = users /\ users' = users
    /\ (req'.route = "GET /api/products" /\ C9_Unfiltered(req')) =>
          res'.body.data = products /\ products' = products
    /\ (req'.route = "POST /api/users" /\ res'.status = 201) =>
          users' = users \o <<res'.body.data>>
    /\ (req'.route = "POST /api/products" /\ res'.status = 201) =>
          products' = products \o <<res'.body.data>>
    /\ (req'.route = "PUT /api/users/:id" /\ res'.status = 200) =>
          /\ Len(users') = Len(users)
          /\ \A i \in 1..Len(users) :
                users'[i].id = users[i].id /\ users'[i].createdAt = users[i].createdAt
    /\ (req'.route = "PUT /api/products/:id" /\ res'.status = 200) =>
          /\ Len(products') = Len(products)
          /\ \A i \in 1..Len(products) : products'[i].id = products[i].id
    /\ (req'.route = "DELETE /api/users/:id" /\ res'.status = 200) =>
          \E k \in 1..Len(users) :
              users[k].id = req'.id /\ users' = Without(users, k)
    /\ (req'.route = "DELETE /api/products/:id" /\ res'.status = 200) =>
          \E k \in 1..Len(products) :
              products[k].id = req'.id /\ products' = Without(products, k)

(* C9  Insertion order is preserved: the unfiltered list returns the       *)
(* collection as it stands; a create appends one entity at the end, an     *)
(* update keeps every entity at its position, a delete removes exactly one *)
(* entity and keeps the others in their order.                             *)
C9_OrderPreserved == [][C9_Step]_vars

\* The middle seed product was deleted, then the list returned the other two
\* in seed order.
C9_Witness ==
    /\ Answered("GET /api/products", 200)
    /\ C9_Unfiltered(req)
    /\ res.body.data = <<SeedProducts[1], SeedProducts[3]>>

(* C10 as claimed: every failure response has success false, an error      *)
(* message and a body field status equal to the HTTP status sent.          *)
C10_UniformEnvelope ==
    res.status >= 400 =>
        /\ res.body.success = FALSE
        /\ "error" \in DOMAIN res.body
        /\ "status" \in DOMAIN res.body
        /\ res.body.status = res.status

\* C10 amended, on one step.
C10_Step ==
    /\ res'.status >= 400 =>
          res'.body.success = FALSE /\ "error" \in DOMAIN res'.body
    /\ (res'.status >= 400 /\ req'.route # "*") =>
          "status" \in DOMAIN res'.body /\ res'.body.status = res'.status
    /\ req'.route = "*" =>
          /\ res'.status = 404
          /\ res'.body.path = req'.originalUrl
          /\ "status" \notin DOMAIN res'.body
    /\ (req'.route = "POST /api/users"
           /\ \E f \in UserFields : req'.body[f] = Undef) => res'.status = 400
    /\ (req'.route = "POST /api/products"
           /\ \E f \in ProductStrings \cup ProductNumbers : req'.body[f] = Undef)
          => res'.status = 400
    /\ (req'.route \in {"GET /api/users/:id", "PUT /api/users/:id",
                         "DELETE /api/users/:id"}
           /\ \A i \in 1..Len(users) : users[i].id # req'.id) => res'.status = 404
    /\ (req'.route \in {"GET /api/products/:id", "PUT /api/products/:id",
                         "DELETE /api/products/:id"}
           /\ \A i \in 1..Len(products) : products[i].id # req'.id)
          => res'.status = 404
    /\ (req'.route = "GET /api/products" /\ Truthy(req'.query.category)
           /\ \E i \in 1..Len(products) : products[i].category.t # "string")
          => res'.status = 500

(* C10 amended: every failure response has success false and an error      *)
(* message; one rendered by the error handler also has a body field status *)
(* equal to the HTTP status sent - 400 for a create with a required field  *)
(* missing, 404 for an id not present, 500 for a failure that carries no   *)
(* status code; the response to an unmatched route is sent with HTTP       *)
(* status 404 and echoes the requested path, and its body has no status    *)
(* field.                                                                  *)
C10_FailureEnvelope == [][C10_Step]_vars

\* A failure without a status code was answered 500 by the error handler.
C10_Witness ==
    /\ Answered("GET /api/products", 500)
    /\ res.body.status = 500
    /\ res.body.error = "p.category.toLowerCase is not a function"

====
